---- MODULE Spec2Model ----
(***************************************************************************)
(* Model of the Application class of the Haru framework                    *)
(* (src/core/Application.ts) and of the launcher that configures it.       *)
(*                                                                         *)
(* The Application owns a Koa app, an AppRouter, a Properties object and   *)
(* the list of controller classes.  initialize() instantiates every        *)
(* controller, registers its routes and caches the instance; start()       *)
(* mounts the router middleware and opens a listener; close() closes the   *)
(* server held in this.server.                                             *)
(*                                                                         *)
(* AppRouter, ApplicationCache, Properties, getControllerMetadata and the  *)
(* controller classes are not part of the sources at hand; they are        *)
(* modelled from their documented contracts.  Koa/Node behaviour           *)
(* (app.listen, server.close, the 'error' event) is modelled as the        *)
(* library behaves.                                                        *)
(***************************************************************************)
EXTENDS Integers, Sequences, FiniteSets, TLC

VARIABLES
    controllers,   \* this.controllers: sequence of controller classes
    meta,          \* decorator metadata recorded on each class prototype
    properties,    \* this.properties: the loaded key/value configuration
    external,      \* ports held by other processes of the host
    stack,         \* this.router.stack: the registered routes, in order
    cache,         \* ApplicationCache: key -> controller instance
    nextId,        \* identity given to the next object created by `new`
    mounted,       \* number of times start() mounted the router middleware
    servers,       \* every http.Server created by this.app.listen
    server,        \* this.server: 0 (undefined) or an index into servers
    log,           \* the ports announced by logger.info("Haru App started")
    listenCalls,   \* number of calls of this.app.listen
    startCalls,    \* number of calls of start()
    initCalls,     \* number of calls of initialize()
    crashed,       \* the process died of an unhandled 'error' event
    last           \* the call made last and what its caller observed

vars == <<controllers, meta, properties, external, stack, cache, nextId,
          mounted, servers, server, log, listenCalls, startCalls, initCalls,
          crashed, last>>

config == <<controllers, meta, properties, external>>

(***************************************************************************)
(* Bounds of the model.                                                    *)
(***************************************************************************)
MaxLen == 2        \* longest value of the 'port' property, in characters
MaxRoutes == 2     \* most route bindings declared by one controller class
MaxInit == 2       \* calls of initialize()
MaxStart == 3      \* calls of start()

(***************************************************************************)
(* JavaScript values: numbers, NaN, undefined and strings.                 *)
(***************************************************************************)
Num(n) == [t |-> "num", v |-> n]
NaN == [t |-> "nan", v |-> 0]
Undef == [t |-> "undefined", v |-> 0]
Str(s) == [t |-> "str", s |-> s]

DefaultPort == 8080

\* Characters a property value is made of: digits, a sign, white space and
\* a character that is none of these.
Chars == {"0", "9", "-", " ", "x"}
Digits == {"0", "9"}
DigitVal(c) == IF c = "9" THEN 9 ELSE 0

Strings == UNION {[1..n -> Chars] : n \in 0..MaxLen}

\* ToBoolean of a string or undefined: the empty string is falsy.
Truthy(x) == x.t = "str" /\ Len(x.s) > 0

RECURSIVE SkipWhite(_)
SkipWhite(s) == IF s # <<>> /\ Head(s) = " " THEN SkipWhite(Tail(s)) ELSE s

RECURSIVE DigitPrefix(_)
DigitPrefix(s) ==
    IF s # <<>> /\ Head(s) \in Digits
    THEN <<Head(s)>> \o DigitPrefix(Tail(s))
    ELSE <<>>

RECURSIVE Decimal(_, _)
Decimal(ds, acc) ==
    IF ds = <<>> THEN acc ELSE Decimal(Tail(ds), 10 * acc + DigitVal(Head(ds)))

\* parseInt(string, 10): leading white space is skipped, a sign is read,
\* then the longest prefix of decimal digits; no digit yields NaN.
parseInt(str) ==
    LET S == SkipWhite(str.s)
        neg == S # <<>> /\ Head(S) = "-"
        body == IF neg THEN Tail(S) ELSE S
        Z == DigitPrefix(body)
    IN IF Z = <<>> THEN NaN
       ELSE Num(IF neg THEN 0 - Decimal(Z, 0) ELSE Decimal(Z, 0))

(***************************************************************************)
(* Properties                                                              *)
(***************************************************************************)
\* Properties.get(key): the value stored under key, undefined when missing.
PropertiesGet(key) ==
    IF key \in DOMAIN properties THEN Str(properties[key]) ELSE Undef

getPortFromProperties ==
    LET port == PropertiesGet("port")
    IN IF Truthy(port) THEN parseInt(port) ELSE Undef

\* a ?? b
Coalesce(a, b) == IF a.t = "undefined" THEN b ELSE a

\* The default value of start's parameter, then line 140.
usedPortOf(port) ==
    LET p == IF port.t = "undefined" THEN Num(DefaultPort) ELSE port
    IN Coalesce(getPortFromProperties, p)

(***************************************************************************)
(* Controllers and their metadata                                          *)
(***************************************************************************)
Classes == {"UserController", "HelloWorldController"}

Methods == {"GET", "POST"}

\* Path strings, as sequences of tokens: "", "/users", "/hello", ...
BasePaths == {<<>>, <<"/", "users">>, <<"/", "hello">>}
RoutePaths == {<<"/">>, <<"/", "users", "/">>}

\* The i-th annotated method of a class.
HandlerNames == <<"list", "show", "create", "update", "remove">>

RouteLists ==
    UNION {{r \in [1..n -> [httpMethod : Methods, path : RoutePaths,
                            handlerName : {"list", "show", "create", "update", "remove"}]] :
              \A i \in 1..n : r[i].handlerName = HandlerNames[i]}
           : n \in 0..MaxRoutes}

Metas == [basePath : BasePaths, routes : RouteLists]

\* The controller of section 8 of the design: /users, GET / -> list.
UserMeta ==
    [basePath |-> <<"/", "users">>,
     routes |-> <<[httpMethod |-> "GET", path |-> <<"/">>, handlerName |-> "list"]>>]

HelloMeta ==
    [basePath |-> <<"/", "hello">>,
     routes |-> <<[httpMethod |-> "GET", path |-> <<"/">>, handlerName |-> "list"]>>]

ControllerLists == UNION {[1..n -> Classes] : n \in 0..Cardinality(Classes)}

\* The launcher: controllers: [UserController, HelloWorldController].
AppControllers == <<"UserController", "HelloWorldController">>

\* getControllerMetadata(controllerClass.prototype)
getControllerMetadata(cls) == meta[cls]

\* controllerClass.prototype.name
PrototypeName(cls) == cls

\* ApplicationCache.set / get
CacheSet(ch, key, inst) ==
    [k \in DOMAIN ch \cup {key} |-> IF k = key THEN inst ELSE ch[k]]

CacheGet(key) == IF key \in DOMAIN cache THEN <<cache[key]>> ELSE <<>>

\* AppRouter.configureEndpoints(routes, controllerInstance, basePath): one
\* route per binding, at basePath + path, appended in order.
configureEndpoints(stk, routes, inst, basePath) ==
    stk \o [i \in 1..Len(routes) |->
               [method |-> routes[i].httpMethod,
                path |-> basePath \o routes[i].path,
                instance |-> inst,
                handler |-> routes[i].handlerName]]

\* The arguments initialize() hands to configureEndpoints (lines 117-121).
EndpointArgs_noBase(cls, inst) ==
    [routes |-> getControllerMetadata(cls).routes,
     instance |-> inst,
     basePath |-> <<>>]

EndpointArgs(cls, inst) ==
    [routes |-> getControllerMetadata(cls).routes,
     instance |-> inst,
     basePath |-> getControllerMetadata(cls).basePath]

\* What initialize() stores in the cache for a class (line 123).
CacheEntry_fresh(cls, inst) ==
    [key |-> PrototypeName(cls), value |-> [cls |-> cls, id |-> inst.id + 100]]

CacheEntry(cls, inst) == [key |-> PrototypeName(cls), value |-> inst]

\* The body of the forEach callback of initialize(), for one class.
RegisterController(acc, cls) ==
    LET controllerInstance == [cls |-> cls, id |-> acc.nextId]
        args == EndpointArgs(cls, controllerInstance)
        entry == CacheEntry(cls, controllerInstance)
    IN [stack |-> configureEndpoints(acc.stack, args.routes, args.instance,
                                     args.basePath),
        cache |-> CacheSet(acc.cache, entry.key, entry.value),
        nextId |-> acc.nextId + 1,
        passed |-> Append(acc.passed, args.instance)]

RECURSIVE forEachController(_, _)
forEachController(i, acc) ==
    IF i > Len(controllers) THEN acc
    ELSE forEachController(i + 1, RegisterController(acc, controllers[i]))

(***************************************************************************)
(* The listener                                                            *)
(***************************************************************************)
EphemeralPorts == {49152, 49153}

Listening == {i \in 1..Len(servers) : servers[i].listening}

OwnPorts == {servers[i].port : i \in Listening}

OccupiedPorts == external \cup OwnPorts

\* net.Server validates the port before it binds.
ValidPort(p) == p.t = "num" /\ p.v \in 0..65535

\* this.app.listen(usedPort): an invalid port throws at once; port 0 takes
\* a free port of the host; a port in use yields a server that is not
\* listening and that emits 'error' on the next tick.
Listen(usedPort) ==
    IF ~ValidPort(usedPort) THEN {[kind |-> "throw", port |-> 0]}
    ELSE IF usedPort.v = 0
    THEN IF EphemeralPorts \subseteq OccupiedPorts
         THEN {[kind |-> "error", port |-> 0]}
         ELSE {[kind |-> "ok", port |-> p] : p \in EphemeralPorts \ OccupiedPorts}
    ELSE IF usedPort.v \in OccupiedPorts
    THEN {[kind |-> "error", port |-> usedPort.v]}
    ELSE {[kind |-> "ok", port |-> usedPort.v]}

PendingErrors == {i \in 1..Len(servers) : servers[i].error}

NoCall ==
    [op |-> "new", arg |-> Undef, used |-> Undef, threw |-> FALSE,
     logged |-> FALSE, handle |-> 0, kind |-> "none", method |-> "",
     path |-> <<>>,
     invoked |-> <<>>, passed |-> <<>>]

(***************************************************************************)
(* Operations                                                              *)
(***************************************************************************)
\* A guarded initialize(): a second call registers nothing.
initialize_once ==
    /\ ~crashed
    /\ initCalls < MaxInit
    /\ LET r == IF initCalls > 0
                THEN [stack |-> stack, cache |-> cache, nextId |-> nextId,
                      passed |-> <<>>]
                ELSE forEachController(1, [stack |-> stack, cache |-> cache,
                                           nextId |-> nextId, passed |-> <<>>])
       IN /\ stack' = r.stack
          /\ cache' = r.cache
          /\ nextId' = r.nextId
          /\ last' = [NoCall EXCEPT !.op = "initialize", !.passed = r.passed,
                                    !.kind = "this"]
    /\ initCalls' = initCalls + 1
    /\ UNCHANGED <<config, mounted, servers, server, log, listenCalls,
                   startCalls, crashed>>

\* initialize(), lines 109-127
initialize ==
    /\ ~crashed
    /\ initCalls < MaxInit
    /\ LET r == forEachController(1, [stack |-> stack, cache |-> cache,
                                      nextId |-> nextId, passed |-> <<>>])
       IN /\ stack' = r.stack
          /\ cache' = r.cache
          /\ nextId' = r.nextId
          /\ last' = [NoCall EXCEPT !.op = "initialize", !.passed = r.passed,
                                    !.kind = "this"]
    /\ initCalls' = initCalls + 1
    /\ UNCHANGED <<config, mounted, servers, server, log, listenCalls,
                   startCalls, crashed>>

\* start(port = 8080), lines 136-145
start(port) ==
    /\ ~crashed
    /\ startCalls < MaxStart
    /\ startCalls' = startCalls + 1
    /\ mounted' = mounted + 1
    /\ listenCalls' = listenCalls + 1
    /\ LET usedPort == usedPortOf(port)
       IN \E o \in Listen(usedPort) :
            IF o.kind = "throw"
            THEN /\ UNCHANGED <<servers, server, log>>
                 /\ last' = [NoCall EXCEPT !.op = "start", !.arg = port,
                                           !.used = usedPort, !.threw = TRUE,
                                           !.kind = o.kind]
            ELSE /\ servers' = Append(servers,
                                      [port |-> o.port,
                                       listening |-> o.kind = "ok",
                                       error |-> o.kind = "error"])
                 /\ server' = Len(servers) + 1
                 /\ log' = Append(log, usedPort)
                 /\ last' = [NoCall EXCEPT !.op = "start", !.arg = port,
                                           !.used = usedPort,
                                           !.logged = TRUE,
                                           !.handle = Len(servers) + 1,
                                           !.kind = o.kind]
    /\ UNCHANGED <<config, stack, cache, nextId, initCalls, crashed>>

\* A close() that returns the handle without closing it.
close_keepsListening ==
    /\ ~crashed
    /\ last' = [NoCall EXCEPT !.op = "close", !.handle = server]
    /\ UNCHANGED <<config, stack, cache, nextId, mounted, servers, server,
                   log, listenCalls, startCalls, initCalls, crashed>>

\* A close() that closes every server the application ever opened.
close_all ==
    /\ ~crashed
    /\ servers' = [i \in 1..Len(servers) |->
                     [servers[i] EXCEPT !.listening = FALSE]]
    /\ last' = [NoCall EXCEPT !.op = "close", !.handle = server]
    /\ UNCHANGED <<config, stack, cache, nextId, mounted, server, log,
                   listenCalls, startCalls, initCalls, crashed>>

\* A close() that also empties the instance cache.
close_evicts ==
    /\ ~crashed
    /\ IF server = 0
       THEN servers' = servers
       ELSE servers' = [servers EXCEPT ![server].listening = FALSE]
    /\ cache' = [k \in {} |-> 0]
    /\ last' = [NoCall EXCEPT !.op = "close", !.handle = server]
    /\ UNCHANGED <<config, stack, nextId, mounted, server, log,
                   listenCalls, startCalls, initCalls, crashed>>

\* close(), lines 169-171: this.server?.close()
close ==
    /\ ~crashed
    /\ IF server = 0
       THEN servers' = servers
       ELSE servers' = [servers EXCEPT ![server].listening = FALSE]
    /\ last' = [NoCall EXCEPT !.op = "close", !.handle = server]
    /\ UNCHANGED <<config, stack, cache, nextId, mounted, server, log,
                   listenCalls, startCalls, initCalls, crashed>>

\* A server that failed to bind emits 'error'; nothing listens for it.
errorEvent ==
    /\ ~crashed
    /\ PendingErrors # {}
    /\ crashed' = TRUE
    /\ UNCHANGED <<config, stack, cache, nextId, mounted, servers, server,
                   log, listenCalls, startCalls, initCalls, last>>

\* router.routes(): the first registered route of that method and path
\* handles the request.
Matches(method, path) ==
    {i \in 1..Len(stack) : stack[i].method = method /\ stack[i].path = path}

Dispatch(method, path) ==
    LET m == Matches(method, path)
    IN IF m = {} THEN <<>>
       ELSE LET i == CHOOSE j \in m : \A k \in m : j <= k
            IN <<[instance |-> stack[i].instance, handler |-> stack[i].handler]>>

RequestPaths == {b \o p : b \in BasePaths, p \in RoutePaths}

\* An HTTP request reaches a listening server of the application.
request(method, path) ==
    /\ ~crashed
    /\ PendingErrors = {}
    /\ Listening # {}
    /\ mounted > 0
    /\ last' = [NoCall EXCEPT !.op = "request", !.method = method,
                              !.path = path,
                              !.invoked = Dispatch(method, path)]
    /\ UNCHANGED <<config, stack, cache, nextId, mounted, servers, server,
                   log, listenCalls, startCalls, initCalls, crashed>>

(***************************************************************************)
(* Specifications                                                          *)
(***************************************************************************)
InitState ==
    /\ stack = <<>>
    /\ cache = [k \in {} |-> 0]
    /\ nextId = 1
    /\ mounted = 0
    /\ servers = <<>>
    /\ server = 0
    /\ log = <<>>
    /\ listenCalls = 0
    /\ startCalls = 0
    /\ initCalls = 0
    /\ crashed = FALSE
    /\ last = NoCall

PortArgs == {Undef, Num(3000)}

\* The launcher's application, with or without a 'port' property.
Init ==
    /\ controllers = AppControllers
    /\ meta = [c \in Classes |->
                 IF c = "UserController" THEN UserMeta ELSE HelloMeta]
    /\ properties \in {[k \in {} |-> <<>>], [port |-> <<"9", "0">>]}
    /\ external \in {{}, {DefaultPort}}
    /\ InitState

Next ==
    \/ initialize
    \/ \E port \in PortArgs : start(port)
    \/ close
    \/ errorEvent
    \/ \E m \in Methods, p \in RequestPaths : request(m, p)

Spec == Init /\ [][Next]_vars

\* Every value of the 'port' property.
InitPort ==
    /\ controllers = AppControllers
    /\ meta = [c \in Classes |->
                 IF c = "UserController" THEN UserMeta ELSE HelloMeta]
    /\ properties \in {[k \in {} |-> <<>>]} \cup {[port |-> s] : s \in Strings}
    /\ external \in {{}, {DefaultPort}}
    /\ InitState

NextPort ==
    \/ \E port \in PortArgs : start(port)
    \/ close
    \/ errorEvent

SpecPort == InitPort /\ [][NextPort]_vars

\* Every list of controllers and every metadata of HelloWorldController.
InitRoute ==
    /\ controllers \in ControllerLists
    /\ meta \in {f \in [Classes -> Metas \cup {UserMeta}] :
                    f["UserController"] = UserMeta /\
                    f["HelloWorldController"] \in Metas}
    /\ properties = [k \in {} |-> <<>>]
    /\ external = {}
    /\ InitState

NextRoute ==
    \/ initialize
    \/ start(Undef)
    \/ close
    \/ errorEvent
    \/ \E m \in Methods, p \in RequestPaths : request(m, p)

SpecRoute == InitRoute /\ [][NextRoute]_vars

(***************************************************************************)
(* Properties                                                              *)
(***************************************************************************)
Routes(i) == getControllerMetadata(controllers[i]).routes
BasePath(i) == getControllerMetadata(controllers[i]).basePath
FullPath(i, j) == BasePath(i) \o Routes(i)[j].path

\* The positions <<controller, binding>> of the configuration.
BindingPositions ==
    UNION {{<<i, j>> : j \in 1..Len(Routes(i))} : i \in 1..Len(controllers)}

RECURSIVE RoutesBefore(_)
RoutesBefore(i) ==
    IF i <= 1 THEN 0 ELSE RoutesBefore(i - 1) + Len(Routes(i - 1))

RoutesPerCall == RoutesBefore(Len(controllers) + 1)

\* The route the k-th initialize() registers for binding j of controller i.
Registration(k, i, j) ==
    [method |-> Routes(i)[j].httpMethod,
     path |-> FullPath(i, j),
     instance |-> [cls |-> controllers[i],
                   id |-> (k - 1) * Len(controllers) + i],
     handler |-> Routes(i)[j].handlerName]

Before(a, b) == a[1] < b[1] \/ (a[1] = b[1] /\ a[2] < b[2])

SameRoute(a, b) ==
    /\ Routes(a[1])[a[2]].httpMethod = Routes(b[1])[b[2]].httpMethod
    /\ FullPath(a[1], a[2]) = FullPath(b[1], b[2])

Shadowed(b) == \E a \in BindingPositions : Before(a, b) /\ SameRoute(a, b)

RequestFor(b) ==
    /\ last.op = "request"
    /\ initCalls > 0
    /\ last.method = Routes(b[1])[b[2]].httpMethod
    /\ last.path = FullPath(b[1], b[2])

DistinctNames ==
    \A i, k \in 1..Len(controllers) : i # k => controllers[i] # controllers[k]

Closed == {i \in 1..Len(servers) : ~servers[i].listening /\ ~servers[i].error}

\* C1: start(port) passes to listen the integer parsed from the 'port'
\* property when the property is present (a non-empty value), and otherwise
\* the port argument (8080 when none is given); what it passes is always
\* an integer.
C1_ListenOnParsedInteger ==
    last.op = "start" =>
        /\ last.used.t = "num"
        /\ last.used = IF Truthy(PropertiesGet("port"))
                       THEN parseInt(PropertiesGet("port"))
                       ELSE IF last.arg.t = "undefined" THEN Num(DefaultPort)
                       ELSE last.arg

C3_CloseReleasesPort ==
    last.op = "close" =>
        /\ ~last.threw
        /\ last.handle = server
        /\ (startCalls = 0 => last.handle = 0)
        /\ (server # 0 /\ ~servers[server].error) =>
              /\ ~servers[server].listening
              /\ Listen(Num(servers[server].port)) =
                    {[kind |-> "ok", port |-> servers[server].port]}

C3_Witness ==
    /\ last.op = "close"
    /\ last.handle # 0
    /\ ~servers[server].error
    /\ ~servers[server].listening

\* C4: after initialize() and start(), a request with the method of a
\* declared binding to base path + path invokes exactly one handler, the
\* binding's handler, on an instance of that controller.
C4_EveryBindingIsInvoked ==
    \A b \in BindingPositions :
        RequestFor(b) =>
            /\ Len(last.invoked) = 1
            /\ last.invoked[1].handler = Routes(b[1])[b[2]].handlerName
            /\ last.invoked[1].instance.cls = controllers[b[1]]

\* C4, amended: a request invokes at most one handler, and a request for a
\* binding that no earlier binding of the configuration shadows (same method,
\* same base path + path) invokes exactly the binding's handler on the
\* instance of that controller created by the first initialize().
C4_FirstRegisteredIsInvoked ==
    /\ last.op = "request" => Len(last.invoked) <= 1
    /\ \A b \in BindingPositions :
          (RequestFor(b) /\ ~Shadowed(b)) =>
              last.invoked =
                 <<[instance |-> Registration(1, b[1], b[2]).instance,
                    handler |-> Routes(b[1])[b[2]].handlerName]>>

C4_Witness ==
    \E b \in BindingPositions :
        /\ RequestFor(b)
        /\ ~Shadowed(b)
        /\ b[1] = 2
        /\ Len(last.invoked) = 1

\* Two controllers of distinct classes and distinct base paths that each
\* declare a binding of the same method and the same relative path.
SharedBinding(a, b) ==
    /\ a[1] # b[1]
    /\ controllers[a[1]] # controllers[b[1]]
    /\ BasePath(a[1]) # BasePath(b[1])
    /\ Routes(a[1])[a[2]].httpMethod = Routes(b[1])[b[2]].httpMethod
    /\ Routes(a[1])[a[2]].path = Routes(b[1])[b[2]].path

\* C5: when two controllers with distinct base paths each declare a route
\* of the same method and relative path, initialize() registers two separate
\* routes and a request to one controller's route never invokes a handler
\* of the other controller's instance.
C5_NoCrossInvocation ==
    \A a, b \in BindingPositions :
        (SharedBinding(a, b) /\ initCalls > 0) =>
            /\ stack[RoutesBefore(a[1]) + a[2]].path #
                  stack[RoutesBefore(b[1]) + b[2]].path
            /\ RequestFor(a) =>
                  \A x \in 1..Len(last.invoked) :
                      last.invoked[x].instance.cls # controllers[b[1]]

\* C5, amended: the two routes are registered separately, at different
\* paths, and a request to one controller's route reaches the other
\* controller's instance only through another binding of that controller,
\* registered earlier, whose base path + path is the same string; the
\* other controller's binding of the shared relative path is never invoked.
C5_SharedRoutesAreSeparate ==
    \A a, b \in BindingPositions :
        (SharedBinding(a, b) /\ initCalls > 0) =>
            /\ stack[RoutesBefore(a[1]) + a[2]] = Registration(1, a[1], a[2])
            /\ stack[RoutesBefore(b[1]) + b[2]] = Registration(1, b[1], b[2])
            /\ FullPath(a[1], a[2]) # FullPath(b[1], b[2])
            /\ RequestFor(a) =>
                  \A x \in 1..Len(last.invoked) :
                      last.invoked[x].instance.cls = controllers[b[1]] =>
                          \E c \in BindingPositions :
                              /\ c[1] = b[1]
                              /\ c # b
                              /\ Before(c, a)
                              /\ SameRoute(c, a)
                              /\ last.invoked[x].handler =
                                    Routes(c[1])[c[2]].handlerName

C5_Witness ==
    \E a, b \in BindingPositions :
        /\ SharedBinding(a, b)
        /\ RequestFor(a)
        /\ Len(last.invoked) = 1
        /\ last.invoked[1].instance.cls = controllers[a[1]]

\* C6: the lifecycle is Constructed, Initialized, Started, Closed, in that
\* order, for every sequence of calls: a listener is opened only in an
\* initialized application, a listener is closed only after it was started,
\* and no call moves the application back (no listener is opened once one
\* was closed).
C6_LifecycleOrder ==
    [][/\ (Listening' \ Listening # {} => initCalls > 0 /\ Closed = {})
       /\ (Closed' \ Closed # {} => startCalls > 0)]_vars

\* C6, amended: the order is not enforced.  For every sequence of calls a
\* listener is opened only by start(), and a listener is closed only by
\* close(), only after a start(), and it is the one held in this.server.
C6_ListenersChangeByStartAndClose ==
    [][/\ (Listening' \ Listening # {} =>
              startCalls' = startCalls + 1 /\ last'.op = "start")
       /\ (Listening \ Listening' # {} =>
              /\ last'.op = "close"
              /\ startCalls > 0
              /\ Listening \ Listening' = {server})]_vars

C6_Witness ==
    /\ last.op = "start"
    /\ last.kind = "ok"
    /\ initCalls = 0
    /\ Closed # {}
    /\ server \in Listening

\* C7: when the listen inside start() fails, the failure reaches the caller
\* of start(), listen was attempted exactly once per start(), and no
\* 'started' message is logged.
C7_ListenFailureReachesCaller ==
    (last.op = "start" /\ last.kind \in {"throw", "error"}) =>
        /\ last.threw
        /\ ~last.logged
        /\ listenCalls = startCalls

\* C8: initialize() is not idempotent: after k calls the router holds k
\* registrations of every declared binding, in order, every call having
\* created a fresh instance of every controller class, and the call returns
\* the application itself.
C8_InitializeRegistersAgain ==
    /\ Len(stack) = initCalls * RoutesPerCall
    /\ nextId = 1 + initCalls * Len(controllers)
    /\ \A k \in 1..initCalls : \A b \in BindingPositions :
          stack[(k - 1) * RoutesPerCall + RoutesBefore(b[1]) + b[2]] =
             Registration(k, b[1], b[2])
    /\ last.op = "initialize" => last.kind = "this" /\ ~last.threw

C8_Witness ==
    /\ last.op = "initialize"
    /\ initCalls = 2
    /\ RoutesPerCall >= 2
    /\ Len(stack) = 2 * RoutesPerCall

\* C9: only initialize() writes the instance cache: every other step leaves
\* all entries unchanged, and no step removes a key.
C9_CacheWrittenOnlyByInitialize ==
    [][/\ (cache' # cache => initCalls' = initCalls + 1)
       /\ DOMAIN cache \subseteq DOMAIN cache']_vars

C9_Witness ==
    /\ last.op = "close"
    /\ last.handle # 0
    /\ DOMAIN cache # {}
    /\ Closed # {}

\* C10: after close() returns, no listening socket opened by the
\* application remains open.
C10_NoListenerAfterClose == last.op = "close" => Listening = {}

====
